---------------------------- MODULE Spec2Model ----------------------------
(***************************************************************************)
(* A model of gpturd: the vocabulary codec (data/convert.rs), the dataset  *)
(* builder (data/parse.rs, data/tokenize.rs), the sampler of               *)
(* Model::generate, the worker loop run_model (model.rs) and the frontend  *)
(* App: its run loop, its handlers and its teardown (app/app.rs).          *)
(*                                                                         *)
(* Characters are one-character strings.  Probabilities and random draws   *)
(* are integers counting units of 1/Scale.                                 *)
(***************************************************************************)
EXTENDS Integers, Sequences, FiniteSets

VARIABLES
    \* vocabulary codec (convert.rs)
    cpc, letter, index, decoded,
    \* sampler (model.rs, Model::generate lines 149-157)
    spc, probs, random_val, position,
    \* dataset builder (parse.rs, tokenize.rs)
    dpc, file, block_size, data, training_end, training, validation,
    \* the model worker (model.rs, run_model) and the two channels
    wpc, options, params, commands, sender, results, receiver, cur, done,
    sent, faults,
    \* the frontend (app/app.rs): its place in the teardown
    apc,
    \* the frontend's run loop (App::run) and the fields of App it uses
    rpc, state, show_generated, loss_data, validation_loss_data,
    generated_data, app_options, seen, handled, recvd

codecVars   == <<cpc, letter, index, decoded>>
sampleVars  == <<spc, probs, random_val, position>>
dataVars    == <<dpc, file, block_size, data, training_end, training, validation>>
workerVars  == <<wpc, options, params, commands, sender, results, receiver,
                 cur, done, sent, faults>>
runVars     == <<rpc, state, show_generated, loss_data, validation_loss_data,
                 generated_data, app_options, seen, handled, recvd>>
appVars     == <<apc, runVars>>
vars        == <<codecVars, sampleVars, dataVars, workerVars, appVars>>

---------------------------------------------------------------------------
(* Bounds of the model.                                                    *)

\* probabilities and random draws are multiples of 1/Scale
Scale == 4
\* the largest number of lines of a data file
MaxWords == 6
\* the number of commands the frontend sends
MaxCmds == 2
\* the number of tensor-backend failures in one run
MaxFaults == 1
\* the letters of a generated word that are recorded: a word has no
\* longest length, and its letters after these are left out of its text
MaxWordLen == 1
\* the number of key presses the run loop receives
MaxKeys == 2

---------------------------------------------------------------------------
(* data/convert.rs                                                         *)

LETTERS ==
    << ".", "a", "b", "c", "d", "e", "f", "g", "h", "i", "j", "k", "l", "m",
       "n", "o", "p", "q", "r", "s", "t", "u", "v", "w", "x", "y", "z" >>

\* the characters the codec is tried on: the vocabulary and some other
\* printable characters
OtherChars == {"A", "Z", "0", "9", " ", "-", "_", "{", "~", "!", "#"}
ValidChars == {LETTERS[i] : i \in DOMAIN LETTERS}
Chars      == ValidChars \cup OtherChars

\* a u8
U8 == 0..255

\* LETTERS.get(usize::from(index)).unwrap_or(&'z')
itol(i) ==
    IF i + 1 \in DOMAIN LETTERS THEN LETTERS[i + 1] ELSE "z"

\* ltoi with the delimiter as the fallback
ltoi_FallbackDelimiter(c) ==
    IF \E i \in DOMAIN LETTERS : LETTERS[i] = c
    THEN (CHOOSE i \in DOMAIN LETTERS : LETTERS[i] = c) - 1
    ELSE 0

\* LETTERS.iter().position(|&c| c == letter).unwrap_or(LETTERS.len() - 1) as u8
ltoi(c) ==
    IF \E i \in DOMAIN LETTERS : LETTERS[i] = c
    THEN ((CHOOSE i \in DOMAIN LETTERS :
              LETTERS[i] = c /\ \A j \in 1..(i - 1) : LETTERS[j] # c) - 1) % 256
    ELSE (Len(LETTERS) - 1) % 256

---------------------------------------------------------------------------
(* The codec applied to one character, and to one raw index.               *)

CodecIdle ==
    /\ cpc = "idle" /\ letter = "." /\ index = 0 /\ decoded = "."

InitCodec ==
    /\ \/ cpc = "letter" /\ letter \in Chars /\ index = 0
       \/ cpc = "index" /\ letter = "." /\ index \in U8
    /\ decoded = "."

\* ltoi(letter)
CodecLtoi ==
    /\ cpc = "letter"
    /\ index' = ltoi(letter)
    /\ cpc' = "encoded"
    /\ UNCHANGED <<letter, decoded>>
    /\ UNCHANGED <<sampleVars, dataVars, workerVars, appVars>>

\* itol of the index ltoi returned
CodecItol ==
    /\ cpc = "encoded"
    /\ decoded' = itol(index)
    /\ cpc' = "decoded"
    /\ UNCHANGED <<letter, index>>
    /\ UNCHANGED <<sampleVars, dataVars, workerVars, appVars>>

\* itol of any u8
CodecItolRaw ==
    /\ cpc = "index"
    /\ decoded' = itol(index)
    /\ cpc' = "index_decoded"
    /\ UNCHANGED <<letter, index>>
    /\ UNCHANGED <<sampleVars, dataVars, workerVars, appVars>>

---------------------------------------------------------------------------
(* The sampler of Model::generate (model.rs lines 142-157).                *)

\* The vocabulary is hardcoded to the 26 letters plus the delimiter.
VOCAB_SIZE == 27

Vocab == 0..(VOCAB_SIZE - 1)

\* rand::rng().random_range(0.0..1.0): 0 <= r < 1
Draws == 0..(Scale - 1)

\* What softmax can return, with at most two nonzero entries: entry k of
\* the tensor is p[k + 1].  The entries of an f32 probability vector need
\* not sum to exactly 1 (each is rounded, and so is each running sum): the
\* total is in Totals.
Totals == (Scale - 2)..Scale

\* mass m on index i and the rest of the total t on index j
TwoPoint(i, j, m, t) ==
    [k \in 1..VOCAB_SIZE |->
        IF k = i + 1 THEN (IF i = j THEN t ELSE m)
        ELSE IF k = j + 1 THEN t - m ELSE 0]

ProbVectorsOn(S) ==
    {TwoPoint(i, j, m, t) : i \in S, j \in S, m \in 1..Scale, t \in Totals}
        \cap [1..VOCAB_SIZE -> 0..Scale]

\* probs.cumsum(1): the left-to-right running sums
cumsum(p) ==
    LET cs[k \in 1..Len(p)] == IF k = 1 THEN p[1] ELSE cs[k - 1] + p[k]
    IN  cs

Minimum(S) == CHOOSE x \in S : \A y \in S : x <= y

\* let mut position = 0;
\* for (index, &sum) in cumulative_sum.iter().enumerate() {
\*     if random_val <= sum { position = index; break; } }
sample(cumulative_sum, r) ==
    LET hits == {k \in Vocab : r <= cumulative_sum[k + 1]}
    IN  IF hits = {} THEN 0 ELSE Minimum(hits)

SampleIdle ==
    /\ spc = "idle" /\ probs = <<>> /\ random_val = 0 /\ position = 0

InitSample ==
    /\ spc = "draw"
    /\ probs \in ProbVectorsOn(Vocab)
    /\ random_val \in Draws
    /\ position = 0

\* one pass of lines 149-157 for the drawn value and the probabilities
SampleStep ==
    /\ spc = "draw"
    /\ position' = sample(cumsum(probs), random_val)
    /\ spc' = "sampled"
    /\ UNCHANGED <<probs, random_val>>
    /\ UNCHANGED <<codecVars, dataVars, workerVars, appVars>>

---------------------------------------------------------------------------
(* The dataset builder: data/parse.rs and data/tokenize.rs.                *)

UPPERCASE ==
    << "A", "B", "C", "D", "E", "F", "G", "H", "I", "J", "K", "L", "M",
       "N", "O", "P", "Q", "R", "S", "T", "U", "V", "W", "X", "Y", "Z" >>

\* char::to_lowercase on the characters of the model
to_lowercase(c) ==
    IF \E i \in DOMAIN UPPERCASE : UPPERCASE[i] = c
    THEN LETTERS[(CHOOSE i \in DOMAIN UPPERCASE : UPPERCASE[i] = c) + 1]
    ELSE c

RECURSIVE trim_start(_)
trim_start(w) ==
    IF w # <<>> /\ Head(w) = " " THEN trim_start(Tail(w)) ELSE w

RECURSIVE trim_end(_)
trim_end(w) ==
    IF w # <<>> /\ w[Len(w)] = " " THEN trim_end(SubSeq(w, 1, Len(w) - 1)) ELSE w

\* str::trim
trim(w) == trim_end(trim_start(w))

\* the lines a data file is made of
Lines == { <<>>, <<" ", "a", "B", "-">> }

\* a data file: unreadable, or its lines
Unreadable == [readable |-> FALSE, lines |-> <<>>]

Files ==
    {Unreadable} \cup
    UNION {[readable : {TRUE}, lines : [1..n -> Lines]] : n \in 0..MaxWords}

\* parse_data: content.lines().map(|elem| String::from(elem).trim().to_lowercase())
parse_data(f) ==
    IF f.readable
    THEN [status |-> "ok",
          items  |-> [i \in 1..Len(f.lines) |->
                        LET w == trim(f.lines[i])
                        IN  [k \in 1..Len(w) |-> to_lowercase(w[k])]]]
    ELSE [status |-> "err", items |-> <<>>]

\* the orders data.shuffle can leave the words in
Shuffles(words) ==
    LET R == {words[i] : i \in DOMAIN words}
        Count(s, x) == Cardinality({i \in DOMAIN s : s[i] = x})
    IN  {s \in [1..Len(words) -> R] : \A x \in R : Count(s, x) = Count(words, x)}

\* f64::round of num/den >= 0: half rounds away from zero.  For len * 0.9
\* the f64 product is exactly k + 0.5 when len mod 10 = 5, and at least
\* 0.1 away from a half otherwise, so the integer form is exact.
round(num, den) == (2 * num + den) \div (2 * den)

\* the split index truncated instead of rounded
TrainingEnd_Truncated(len) == (len * 9) \div 10

\* (data.len() as f64 * 0.9).round() as usize
TrainingEnd(len) == round(len * 9, 10)

NoRows == [status |-> "none", input |-> <<>>, target |-> <<>>]

\* the loop over the letters of one word and its trailing delimiter
RECURSIVE tokenize_letters(_, _, _)
tokenize_letters(chars, context, acc) ==
    IF chars = <<>> THEN acc
    ELSE LET letter_value == ltoi(Head(chars))
             pushed == [acc EXCEPT !.input  = Append(@, context),
                                   !.target = Append(@, letter_value)]
         IN  IF context = <<>>
             THEN \* context.remove(0) on an empty Vec
                  [pushed EXCEPT !.status = "panic"]
             ELSE tokenize_letters(Tail(chars),
                                   Append(Tail(context), letter_value), pushed)

\* the loop over the words with no delimiter pushed after a word
RECURSIVE tokenize_words_NoDelimiter(_, _, _)
tokenize_words_NoDelimiter(words, bs, acc) ==
    IF words = <<>> \/ acc.status = "panic" THEN acc
    ELSE tokenize_words_NoDelimiter(Tail(words), bs,
             tokenize_letters(Head(words), [i \in 1..bs |-> 0], acc))

\* the loop over the words
RECURSIVE tokenize_words(_, _, _)
tokenize_words(words, bs, acc) ==
    IF words = <<>> \/ acc.status = "panic" THEN acc
    ELSE tokenize_words(Tail(words), bs,
             tokenize_letters(Append(Head(words), LETTERS[1]),
                              [i \in 1..bs |-> 0], acc))

\* tokenize: the rows of contexts and the targets, or a panic
tokenize(words, bs) ==
    LET r == tokenize_words(words, bs, [NoRows EXCEPT !.status = "ok"])
    IN  IF r.status = "panic" THEN r
        ELSE IF r.input = <<>>
        THEN \* input[0] of an empty Vec
             [r EXCEPT !.status = "panic"]
        ELSE r

\* the block sizes of the options
BlockSizes == 0..2

DataIdle ==
    /\ dpc = "idle" /\ file = Unreadable /\ block_size = 0 /\ data = <<>>
    /\ training_end = 0 /\ training = NoRows /\ validation = NoRows

InitData ==
    /\ dpc = "start"
    /\ file \in Files
    /\ block_size \in BlockSizes
    /\ data = <<>>
    /\ training_end = 0
    /\ training = NoRows
    /\ validation = NoRows

\* let mut data = parse_data(path)?;
DataParse ==
    /\ dpc = "start"
    /\ LET r == parse_data(file)
       IN  /\ data' = r.items
           /\ dpc' = IF r.status = "ok" THEN "parsed" ELSE "err"
    /\ UNCHANGED <<file, block_size, training_end, training, validation>>
    /\ UNCHANGED <<codecVars, sampleVars, workerVars, appVars>>

\* data.shuffle(&mut rand::rng());
DataShuffle ==
    /\ dpc = "parsed"
    /\ data' \in Shuffles(data)
    /\ dpc' = "shuffled"
    /\ UNCHANGED <<file, block_size, training_end, training, validation>>
    /\ UNCHANGED <<codecVars, sampleVars, workerVars, appVars>>

\* let training_end = ...; tokenize(&data[..training_end].to_vec(), ..)?
DataTokenizeTraining ==
    /\ dpc = "shuffled"
    /\ training_end' = TrainingEnd(Len(data))
    /\ training' = tokenize(SubSeq(data, 1, training_end'), block_size)
    /\ dpc' = IF training'.status = "ok" THEN "training_done" ELSE "panic"
    /\ UNCHANGED <<file, block_size, data, validation>>
    /\ UNCHANGED <<codecVars, sampleVars, workerVars, appVars>>

\* tokenize(&data[training_end..].to_vec(), ..)?
DataTokenizeValidation ==
    /\ dpc = "training_done"
    /\ validation' = tokenize(SubSeq(data, training_end + 1, Len(data)), block_size)
    /\ dpc' = IF validation'.status = "ok" THEN "done" ELSE "panic"
    /\ UNCHANGED <<file, block_size, data, training_end, training>>
    /\ UNCHANGED <<codecVars, sampleVars, workerVars, appVars>>

---------------------------------------------------------------------------
(* The messages of app/message.rs.                                         *)

\* ModelCommandMessage (run_model matches Generate under the name Vibe)
Train(iterations, start) ==
    [type |-> "Train", iterations |-> iterations, start |-> start, count |-> 0]
Generate(count) ==
    [type |-> "Generate", iterations |-> 0, start |-> 0, count |-> count]
Shutdown ==
    [type |-> "Shutdown", iterations |-> 0, start |-> 0, count |-> 0]

\* ModelResultMessage; the loss value of a Progress is left out
Progress(loss_type, iteration) ==
    [type |-> "Progress", loss_type |-> loss_type, iteration |-> iteration,
     text |-> <<>>]
Generated(text) ==
    [type |-> "Generated", loss_type |-> "", iteration |-> 0, text |-> text]
Error ==
    [type |-> "Error", loss_type |-> "", iteration |-> 0, text |-> <<>>]
Finished ==
    [type |-> "Finished", loss_type |-> "", iteration |-> 0, text |-> <<>>]

\* the commands the frontend sends
Commands ==
    { Train(0, 0), Train(3, 0), Train(20, 3),
      Generate(0), Generate(2),
      Shutdown }

---------------------------------------------------------------------------
(* The model worker: run_model, Model::init, Model::train and              *)
(* Model::generate of model.rs.                                            *)

\* the options run_model is started with
DeviceNames == {"cpu", "tpu"}

WorkerFiles ==
    { Unreadable,
      [readable |-> TRUE,
       lines |-> << <<"a", "n", "n">>, <<"b", "o", "b">>, <<"c", "a", "t">> >>],
      [readable |-> TRUE, lines |-> [i \in 1..MaxWords |-> <<"a", "n", "n">>]] }

WorkerOptions ==
    [device : DeviceNames, data : WorkerFiles, block_size : {0, 2},
     batch_size : {3}]

\* device::open_device succeeds
open_device(name) == name \in {"cpu", "cuda", "metal"}

\* the five parameters c, weights_1, biases_1, weights_2, biases_2: the
\* number of times each has been replaced
NoParams    == <<>>
FreshParams == <<0, 0, 0, 0, 0>>

\* the update of the last parameter, biases_2, left out
Replaced_NotLast(p, k) == [i \in 1..5 |-> IF i <= k /\ i < 5 THEN p[i] + 1 ELSE p[i]]

\* the first k parameters replaced by backpropagate_parameter
Replaced(p, k) == [i \in 1..5 |-> IF i <= k THEN p[i] + 1 ELSE p[i]]

\* the command being executed and the locals of its call: count of train;
\* the word number, output and context of generate, with rest the number
\* of letters of output that are not recorded, modulo 2
NoCur ==
    [cmd |-> Shutdown, count |-> 0, word |-> 0, output |-> <<>>, rest |-> 0,
     context |-> <<>>, from |-> 0]

\* the worker thread has ended: its Receiver of commands is dropped
WorkerEnded == wpc \in {"failed", "panicked", "exited"}

\* Sender::send on the result channel
SendOk == receiver = "alive"
Sent(log, msg) == IF SendOk THEN Append(log, msg) ELSE log

\* the record of one executed command: results[from + 1 .. to] are the
\* results it sent, then is the worker's place after it
Executed(outcome, log, then) ==
    [cmd |-> cur.cmd, from |-> cur.from, to |-> Len(log),
     outcome |-> outcome, then |-> then]

\* run_model lines 233-235, 239-241: the Err of train or generate is sent
\* as an Error (a failed send is ignored) and the loop goes on
ReturnErr(log) ==
    /\ results' = Sent(log, Error)
    /\ done' = Append(done, Executed("err", results', "recv"))
    /\ wpc' = "recv"
    /\ cur' = NoCur

ReturnOk(log) ==
    /\ results' = log
    /\ done' = Append(done, Executed("ok", results', "recv"))
    /\ wpc' = "recv"
    /\ cur' = NoCur

\* a panic unwinds the worker thread
Panic(log) ==
    /\ results' = log
    /\ done' = Append(done, Executed("panic", results', "panicked"))
    /\ wpc' = "panicked"
    /\ cur' = cur

\* the run loop of the frontend is not part of the run: the commands are
\* those of SendCommand
RunOff ==
    /\ rpc = "off" /\ state = "Main" /\ show_generated = FALSE
    /\ loss_data = <<>> /\ validation_loss_data = <<>>
    /\ generated_data = <<>>
    /\ app_options = [iterations |-> 0, generate |-> 0]
    /\ seen = 0 /\ handled = <<>> /\ recvd = "none"

WorkerIdle ==
    /\ wpc = "idle" /\ options = [device |-> "cpu", data |-> Unreadable,
                                  block_size |-> 0, batch_size |-> 0]
    /\ params = NoParams /\ commands = <<>> /\ sender = "alive"
    /\ results = <<>> /\ receiver = "alive" /\ cur = NoCur /\ done = <<>>
    /\ sent = <<>> /\ faults = 0 /\ apc = "idle"
    /\ RunOff

\* App::new lines 55-59: the channels are created and the worker spawned
InitWorker ==
    /\ wpc = "init"
    /\ options \in WorkerOptions
    /\ params = NoParams
    /\ commands = <<>>
    /\ sender = "alive"
    /\ results = <<>>
    /\ receiver = "alive"
    /\ cur = NoCur
    /\ done = <<>>
    /\ sent = <<>>
    /\ faults = 0
    /\ apc = "run"
    /\ RunOff

\* Model::init lines 45-48: open the device, then call training_data
WorkerOpenDevice ==
    /\ wpc = "init"
    /\ IF open_device(options.device)
       THEN /\ wpc' = "init_data"
            /\ dpc' = "start"
            /\ file' = options.data
            /\ block_size' = options.block_size
       ELSE /\ wpc' = "failed"
            /\ UNCHANGED <<dpc, file, block_size>>
    /\ UNCHANGED <<data, training_end, training, validation>>
    /\ UNCHANGED <<options, params, commands, sender, results, receiver, cur,
                   done, sent, faults>>
    /\ UNCHANGED <<codecVars, sampleVars, appVars>>

\* Model::init lines 48-72 after training_data has returned or panicked:
\* the parameters are allocated, or run_model returns the error
WorkerInitModel ==
    /\ wpc = "init_data"
    /\ dpc \in {"done", "err", "panic"}
    /\ \/ /\ dpc = "err"
          /\ wpc' = "failed"
          /\ UNCHANGED <<params, faults>>
       \/ /\ dpc = "panic"
          /\ wpc' = "panicked"
          /\ UNCHANGED <<params, faults>>
       \/ /\ dpc = "done"
          /\ \/ /\ wpc' = "recv"
                /\ params' = FreshParams
                /\ UNCHANGED faults
             \/ \* a Var::rand or Var::zeros fails
                /\ faults < MaxFaults
                /\ faults' = faults + 1
                /\ wpc' = "failed"
                /\ UNCHANGED params
    /\ UNCHANGED <<options, commands, sender, results, receiver, cur, done, sent>>
    /\ UNCHANGED <<codecVars, sampleVars, dataVars, appVars>>

\* run_model lines 231-232: a Train is received
WorkerRecvTrain ==
    /\ wpc = "recv"
    /\ commands # <<>>
    /\ Head(commands).type = "Train"
    /\ commands' = Tail(commands)
    /\ wpc' = "train"
    /\ cur' = [cmd |-> Head(commands), count |-> Head(commands).start,
               word |-> 0, output |-> <<>>, rest |-> 0, context |-> <<>>,
               from |-> Len(results)]
    /\ UNCHANGED <<options, params, sender, results, receiver, done, sent, faults>>
    /\ UNCHANGED <<codecVars, sampleVars, dataVars, appVars>>

\* the newest command of the queue received instead of the oldest
WorkerRecvGenerate_Newest ==
    /\ wpc = "recv"
    /\ commands # <<>>
    /\ commands[Len(commands)].type = "Generate"
    /\ commands' = SubSeq(commands, 1, Len(commands) - 1)
    /\ wpc' = "generate"
    /\ cur' = [cmd |-> commands[Len(commands)], count |-> 0, word |-> 0,
               output |-> <<>>, rest |-> 0,
               context |-> [i \in 1..block_size |-> 0],
               from |-> Len(results)]
    /\ UNCHANGED <<options, params, sender, results, receiver, done, sent, faults>>
    /\ UNCHANGED <<codecVars, sampleVars, dataVars, appVars>>

\* run_model lines 238-239 and Model::generate lines 125-127: a Generate is
\* received
WorkerRecvGenerate ==
    /\ wpc = "recv"
    /\ commands # <<>>
    /\ Head(commands).type = "Generate"
    /\ commands' = Tail(commands)
    /\ wpc' = "generate"
    /\ cur' = [cmd |-> Head(commands), count |-> 0, word |-> 0,
               output |-> <<>>, rest |-> 0,
               context |-> [i \in 1..block_size |-> 0],
               from |-> Len(results)]
    /\ UNCHANGED <<options, params, sender, results, receiver, done, sent, faults>>
    /\ UNCHANGED <<codecVars, sampleVars, dataVars, appVars>>

\* Shutdown taken out of the queue while an operation runs or is queued
\* ahead of it
WorkerRecvShutdown_Cancelling ==
    /\ wpc \in {"recv", "train", "generate"}
    /\ \E i \in DOMAIN commands :
          /\ commands[i].type = "Shutdown"
          /\ commands' = SubSeq(commands, i + 1, Len(commands))
    /\ wpc' = "exited"
    /\ UNCHANGED <<options, params, sender, results, receiver, cur, done, sent,
                   faults>>
    /\ UNCHANGED <<codecVars, sampleVars, dataVars, appVars>>

\* run_model lines 244-246: Shutdown ends the loop
WorkerRecvShutdown ==
    /\ wpc = "recv"
    /\ commands # <<>>
    /\ Head(commands).type = "Shutdown"
    /\ commands' = Tail(commands)
    /\ wpc' = "exited"
    /\ UNCHANGED <<options, params, sender, results, receiver, cur, done, sent,
                   faults>>
    /\ UNCHANGED <<codecVars, sampleVars, dataVars, appVars>>

\* run_model lines 248-250: recv fails, the channel is empty and its
\* Sender dropped
WorkerRecvDisconnected ==
    /\ wpc = "recv"
    /\ commands = <<>>
    /\ sender = "dropped"
    /\ wpc' = "exited"
    /\ UNCHANGED <<options, params, commands, sender, results, receiver, cur,
                   done, sent, faults>>
    /\ UNCHANGED <<codecVars, sampleVars, dataVars, appVars>>

\* the range taken one step too far
TrainLoopDone_OneMore(count, start, iterations) == count > start + iterations

\* for count in start..start + iterations: the range is exhausted
TrainLoopDone(count, start, iterations) == count >= start + iterations

\* the places of one training step that return an Err: the batch or the
\* forward pass or loss.backward (no parameter replaced), the k-th
\* backpropagate_parameter (k - 1 replaced), to_scalar (all replaced)
TrainFaults == {"forward", "backprop3", "scalar"}

ReplacedAt(fault) ==
    CASE fault = "forward"   -> 0
      [] fault = "backprop3" -> 2
      [] fault = "scalar"    -> 5

\* the validation interval counted from start instead of from zero
TrainValidate_FromStart(log) ==
    IF cur.cmd.iterations \div 10 = 0
    THEN Panic(log) /\ UNCHANGED faults
    ELSE IF (cur.count - cur.cmd.start) % (cur.cmd.iterations \div 10) = 0
    THEN \/ /\ faults < MaxFaults
            /\ faults' = faults + 1
            /\ ReturnErr(log)
         \/ /\ UNCHANGED faults
            /\ IF SendOk
               THEN /\ results' = Append(log, Progress("Validation", cur.count))
                    /\ cur' = [cur EXCEPT !.count = @ + 1]
                    /\ UNCHANGED <<wpc, done>>
               ELSE ReturnErr(log)
    ELSE /\ results' = log
         /\ cur' = [cur EXCEPT !.count = @ + 1]
         /\ UNCHANGED <<wpc, done, faults>>

\* Model::train lines 209-217 of one step, after the training progress has
\* been sent (log): the validation progress, and the next step
TrainValidate(log) ==
    IF cur.cmd.iterations \div 10 = 0
    THEN \* count % (iterations / 10) with a divisor of zero
         Panic(log) /\ UNCHANGED faults
    ELSE IF cur.count % (cur.cmd.iterations \div 10) = 0
    THEN \/ \* the validation forward pass or to_vec0 fails
            /\ faults < MaxFaults
            /\ faults' = faults + 1
            /\ ReturnErr(log)
         \/ /\ UNCHANGED faults
            /\ IF SendOk
               THEN /\ results' = Append(log, Progress("Validation", cur.count))
                    /\ cur' = [cur EXCEPT !.count = @ + 1]
                    /\ UNCHANGED <<wpc, done>>
               ELSE ReturnErr(log)
    ELSE /\ results' = log
         /\ cur' = [cur EXCEPT !.count = @ + 1]
         /\ UNCHANGED <<wpc, done, faults>>

\* Model::train lines 185-218: one step of the training loop
WorkerTrainStep ==
    /\ wpc = "train"
    /\ ~TrainLoopDone(cur.count, cur.cmd.start, cur.cmd.iterations)
    /\ \/ \E fault \in TrainFaults :
            /\ faults < MaxFaults
            /\ faults' = faults + 1
            /\ params' = Replaced(params, ReplacedAt(fault))
            /\ ReturnErr(results)
       \/ /\ params' = Replaced(params, 5)
          /\ TrainValidate(Sent(results, Progress("Training", cur.count)))
    /\ UNCHANGED <<options, commands, sender, receiver, sent>>
    /\ UNCHANGED <<codecVars, sampleVars, dataVars, appVars>>

\* Model::train lines 220-222: after the loop, Finished is sent
WorkerTrainFinish ==
    /\ wpc = "train"
    /\ TrainLoopDone(cur.count, cur.cmd.start, cur.cmd.iterations)
    /\ IF SendOk THEN ReturnOk(Append(results, Finished)) ELSE ReturnErr(results)
    /\ UNCHANGED <<options, params, commands, sender, receiver, sent, faults>>
    /\ UNCHANGED <<codecVars, sampleVars, dataVars, appVars>>

\* the indices Generate's probabilities are spread over, and what the
\* sampler returns for them
GenSupport == {0, 26}

SampledPositions ==
    {sample(cumsum(p), r) : p \in ProbVectorsOn(GenSupport), r \in Draws}

\* the word ended by the last index instead of the delimiter
WordEnds_AtLast(pos) == pos = VOCAB_SIZE - 1

\* if position == 0 { break; }
WordEnds(pos) == pos = 0

\* output.push(letter), recorded up to MaxWordLen letters
Pushed(output, l) == IF Len(output) < MaxWordLen THEN Append(output, l) ELSE output

\* the letters of output that are not recorded, modulo 2, after a push
Rest(output, rest) == IF Len(output) < MaxWordLen THEN rest ELSE (rest + 1) % 2

\* context.remove(0) left out
Slid_NotRemoved(context, v) == Append(context, v)

\* context.remove(0); context.push(position as u8);
Slid(context, v) == Append(Tail(context), v)

\* Model::generate lines 129-170: one pass of the sampling loop, and the
\* Generated message when the word ends
WorkerGenerateStep ==
    /\ wpc = "generate"
    /\ cur.word < cur.cmd.count
    /\ \/ \* a tensor operation fails
          /\ faults < MaxFaults
          /\ faults' = faults + 1
          /\ ReturnErr(results)
       \/ \E position_ \in SampledPositions :
            LET pos == position_
            IN  /\ UNCHANGED faults
                /\ IF WordEnds(pos)
                   THEN /\ results' = Sent(results, Generated(cur.output))
                        /\ cur' = [cur EXCEPT !.word = @ + 1, !.output = <<>>,
                                      !.rest = 0,
                                      !.context = [i \in 1..block_size |-> 0]]
                        /\ UNCHANGED <<wpc, done>>
                   ELSE IF cur.context = <<>>
                   THEN \* context.remove(0) on an empty Vec
                        Panic(results)
                   ELSE /\ cur' = [cur EXCEPT
                                      !.output = Pushed(@, itol(pos % 256)),
                                      !.rest = Rest(cur.output, @),
                                      !.context = Slid(@, pos % 256)]
                        /\ UNCHANGED <<wpc, done, results>>
    /\ UNCHANGED <<options, params, commands, sender, receiver, sent>>
    /\ UNCHANGED <<codecVars, sampleVars, dataVars, appVars>>

\* the pass of the sampling loop that samples the delimiter and ends the
\* word (lines 159-161, 168-170)
WorkerGenerateEndWord ==
    WorkerGenerateStep /\ cur'.word = cur.word + 1

\* a pass of the sampling loop that samples a letter (lines 162-165)
WorkerGenerateLetter ==
    WorkerGenerateStep /\ wpc' = "generate" /\ cur'.word = cur.word

\* Model::generate lines 173-175: after the words, Finished is sent (a
\* failed send is ignored)
WorkerGenerateFinish ==
    /\ wpc = "generate"
    /\ cur.word >= cur.cmd.count
    /\ ReturnOk(Sent(results, Finished))
    /\ UNCHANGED <<options, params, commands, sender, receiver, sent, faults>>
    /\ UNCHANGED <<codecVars, sampleVars, dataVars, appVars>>

---------------------------------------------------------------------------
(* The other end of the command channel.                                   *)

\* Sender::send of a command: it fails once the worker has ended.  sent is
\* the history of the commands the frontend has sent.
SendCommand ==
    /\ sender = "alive"
    /\ apc = "run"
    /\ Len(sent) < MaxCmds
    /\ \E c \in Commands :
          /\ sent' = Append(sent, c)
          /\ commands' = IF WorkerEnded THEN commands ELSE Append(commands, c)
    /\ UNCHANGED <<wpc, options, params, sender, results, receiver, cur, done,
                   faults>>
    /\ UNCHANGED <<codecVars, sampleVars, dataVars, appVars>>

\* the Sender of commands is dropped
DropSender ==
    /\ sender = "alive"
    /\ sender' = "dropped"
    /\ UNCHANGED <<wpc, options, params, commands, results, receiver, cur, done,
                   sent, faults>>
    /\ UNCHANGED <<codecVars, sampleVars, dataVars, appVars>>

\* the Receiver of the result channel is dropped while the worker runs
DropReceiver ==
    /\ receiver = "alive"
    /\ receiver' = "dropped"
    /\ UNCHANGED <<wpc, options, params, commands, sender, results, cur, done,
                   sent, faults>>
    /\ UNCHANGED <<codecVars, sampleVars, dataVars, appVars>>

---------------------------------------------------------------------------
(* The teardown of the frontend: impl Drop for App (app.rs lines 227-236). *)

\* line 230: Shutdown is sent, a failed send is ignored.  The App is
\* dropped when main returns (main.rs lines 11-14), which is after run has
\* returned
AppDropShutdown ==
    /\ apc = "run"
    /\ rpc \in {"off", "returned", "send_error", "io_error"}
    /\ apc' = "joining"
    /\ sent' = Append(sent, Shutdown)
    /\ commands' = IF WorkerEnded THEN commands ELSE Append(commands, Shutdown)
    /\ UNCHANGED <<wpc, options, params, sender, results, receiver, cur, done,
                   faults>>
    /\ UNCHANGED <<codecVars, sampleVars, dataVars, runVars>>

\* the join left out: drop returns while the worker runs
AppDropJoin_NoWait ==
    /\ apc = "joining"
    /\ apc' = "joined"
    /\ UNCHANGED <<codecVars, sampleVars, dataVars, workerVars, runVars>>

\* lines 232-234: thread.join() returns once the worker thread has ended
\* (its result, an Err when the thread panicked, is ignored)
AppDropJoin ==
    /\ apc = "joining"
    /\ WorkerEnded
    /\ apc' = "joined"
    /\ UNCHANGED <<codecVars, sampleVars, dataVars, workerVars, runVars>>

\* after drop has returned the fields of App are dropped, model_commands
\* and messages among them
AppRelease ==
    /\ apc = "joined"
    /\ apc' = "released"
    /\ sender' = "dropped"
    /\ receiver' = "dropped"
    /\ UNCHANGED <<wpc, options, params, commands, results, cur, done, sent,
                   faults>>
    /\ UNCHANGED <<codecVars, sampleVars, dataVars, runVars>>

---------------------------------------------------------------------------
(* The worker and the frontend's commands.                                 *)

Init == InitWorker /\ CodecIdle /\ SampleIdle /\ DataIdle

Next ==
    \/ WorkerOpenDevice
    \/ DataParse
    \/ DataShuffle
    \/ DataTokenizeTraining
    \/ DataTokenizeValidation
    \/ WorkerInitModel
    \/ WorkerRecvTrain
    \/ WorkerRecvGenerate
    \/ WorkerRecvShutdown
    \/ WorkerRecvDisconnected
    \/ WorkerTrainStep
    \/ WorkerTrainFinish
    \/ WorkerGenerateStep
    \/ WorkerGenerateFinish
    \/ SendCommand
    \/ DropSender

Spec == Init /\ [][Next]_vars

---------------------------------------------------------------------------
(* The worker with either channel disconnected at any moment.              *)

\* the steps of the worker thread while a Sender of the command channel
\* exists
WorkerRunConnected ==
    \/ WorkerOpenDevice
    \/ DataParse
    \/ DataShuffle
    \/ DataTokenizeTraining
    \/ DataTokenizeValidation
    \/ WorkerInitModel
    \/ WorkerRecvTrain
    \/ WorkerRecvGenerate
    \/ WorkerRecvShutdown
    \/ WorkerTrainStep
    \/ WorkerTrainFinish
    \/ WorkerGenerateStep
    \/ WorkerGenerateFinish

\* the steps of the worker thread
WorkerRun ==
    \/ WorkerRunConnected
    \/ WorkerRecvDisconnected

NextDetached ==
    \/ WorkerRun
    \/ SendCommand
    \/ DropSender
    \/ DropReceiver

SpecDetached == Init /\ [][NextDetached]_vars

---------------------------------------------------------------------------
(* The worker and the frontend that sends commands and is then dropped.    *)

\* App holds the only Sender of the command channel until its fields are
\* dropped (AppRelease), which is after the join: recv cannot return
\* Disconnected to a worker that is still running
NextApp ==
    \/ WorkerRunConnected
    \/ SendCommand
    \/ AppDropShutdown
    \/ AppDropJoin
    \/ AppRelease

SpecApp == Init /\ [][NextApp]_vars

\* the worker thread is scheduled while it has a step to take, the
\* sampler does not avoid the delimiter forever, and the thread blocked in
\* join resumes once the worker has ended
LiveApp ==
    /\ SpecApp
    /\ WF_vars(WorkerRunConnected)
    /\ WF_vars(WorkerGenerateEndWord)
    /\ WF_vars(AppDropJoin)

---------------------------------------------------------------------------
(* The run loop of the frontend: App::new, App::run and its handlers       *)
(* (app.rs lines 45-223), with the worker and the teardown.                *)

\* the key codes of the key presses the event thread forwards
KeyCodes == {"t", "Enter", "g", "q", "Esc", "p", "x"}

\* the options the frontend reads: the iterations of a Train and the count
\* of a Generate
AppOptions == [iterations : {3, 10}, generate : {1}]

\* the options the worker is started with, a clone of those of the App
AppWorkerOptions ==
    [device : {"cpu"}, data : WorkerFiles, block_size : {2}, batch_size : {3}]

\* the text pushed for an Error result: err.to_string()
ErrorText == <<"error">>

\* App::new lines 55-84 and App::run lines 186-187: the worker is spawned,
\* the state is Main and the loop is entered
InitApp ==
    /\ wpc = "init"
    /\ options \in AppWorkerOptions
    /\ params = NoParams
    /\ commands = <<>>
    /\ sender = "alive"
    /\ results = <<>>
    /\ receiver = "alive"
    /\ cur = NoCur
    /\ done = <<>>
    /\ sent = <<>>
    /\ faults = 0
    /\ apc = "run"
    /\ rpc = "match"
    /\ state = "Main"
    /\ show_generated = FALSE
    /\ loss_data = <<>>
    /\ validation_loss_data = <<>>
    /\ generated_data = <<>>
    /\ app_options \in AppOptions
    /\ seen = 0
    /\ handled = <<>>
    /\ recvd = "none"

\* process_event_message lines 104-128: the state after a key press
process_event_message(st, code) ==
    CASE code \in {"q", "Esc"}   -> "Exit"
      [] code \in {"t", "Enter"} -> IF st # "Training" THEN "Training" ELSE st
      [] code = "g"              -> IF st # "Generate" THEN "Generate" ELSE st
      [] OTHER                   -> st

\* start_training line 178: the start of the next Train, the iteration of
\* the last element of loss_data (usize -> f64 -> usize, exact for the
\* iterations of the model), 0 when there is none
start_of(loss) == IF loss = <<>> THEN 0 ELSE loss[Len(loss)]

\* run lines 191-193: the screen is drawn; drawing fails with an I/O error
\* of the terminal, which run returns
AppDrawMain ==
    /\ apc = "run" /\ rpc = "match"
    /\ state = "Main"
    /\ rpc' \in {"recv", "io_error"}
    /\ UNCHANGED <<state, show_generated, loss_data, validation_loss_data,
                   generated_data, app_options, seen, handled, recvd, apc>>
    /\ UNCHANGED <<codecVars, sampleVars, dataVars, workerVars>>

\* run lines 194-197 and start_training lines 174-182: the Train is sent; a
\* send to a worker that has ended fails and run returns the error
AppStartTraining ==
    /\ apc = "run" /\ rpc = "match"
    /\ state = "Training"
    /\ LET c == Train(app_options.iterations, start_of(loss_data))
       IN  /\ sent' = Append(sent, c)
           /\ IF WorkerEnded
              THEN /\ rpc' = "send_error"
                   /\ UNCHANGED <<state, commands>>
              ELSE /\ commands' = Append(commands, c)
                   /\ state' = "Main"
                   /\ rpc' = "recv"
    /\ UNCHANGED <<show_generated, loss_data, validation_loss_data,
                   generated_data, app_options, seen, handled, recvd, apc>>
    /\ UNCHANGED <<wpc, options, params, sender, results, receiver, cur, done,
                   faults>>
    /\ UNCHANGED <<codecVars, sampleVars, dataVars>>

\* run lines 198-201 and start_generation lines 165-171
AppStartGeneration ==
    /\ apc = "run" /\ rpc = "match"
    /\ state = "Generate"
    /\ LET c == Generate(app_options.generate)
       IN  /\ sent' = Append(sent, c)
           /\ IF WorkerEnded
              THEN /\ rpc' = "send_error"
                   /\ UNCHANGED <<state, commands>>
              ELSE /\ commands' = Append(commands, c)
                   /\ state' = "Main"
                   /\ rpc' = "recv"
    /\ UNCHANGED <<show_generated, loss_data, validation_loss_data,
                   generated_data, app_options, seen, handled, recvd, apc>>
    /\ UNCHANGED <<wpc, options, params, sender, results, receiver, cur, done,
                   faults>>
    /\ UNCHANGED <<codecVars, sampleVars, dataVars>>

\* run lines 202, 218-222: the loop is left and the terminal restored,
\* which fails with an I/O error or returns Ok
AppExit ==
    /\ apc = "run" /\ rpc = "match"
    /\ state = "Exit"
    /\ rpc' \in {"returned", "io_error"}
    /\ UNCHANGED <<state, show_generated, loss_data, validation_loss_data,
                   generated_data, app_options, seen, handled, recvd, apc>>
    /\ UNCHANGED <<codecVars, sampleVars, dataVars, workerVars>>

\* run lines 205-208 and process_model_message lines 134-162: recv returns
\* the oldest result of the worker that was not received yet
AppRecvModel ==
    /\ apc = "run" /\ rpc = "recv"
    /\ seen < Len(results)
    /\ LET message == results[seen + 1]
       IN  /\ loss_data' =
                 IF message.type = "Progress" /\ message.loss_type = "Training"
                 THEN Append(loss_data, message.iteration) ELSE loss_data
           /\ validation_loss_data' =
                 IF message.type = "Progress" /\ message.loss_type = "Validation"
                 THEN Append(validation_loss_data, message.iteration)
                 ELSE validation_loss_data
           /\ generated_data' =
                 CASE message.type = "Generated" ->
                          Append(generated_data, message.text)
                   [] message.type = "Error" ->
                          Append(generated_data, ErrorText)
                   [] OTHER -> generated_data
    /\ seen' = seen + 1
    /\ recvd' = "Model"
    /\ rpc' = "match"
    /\ UNCHANGED <<state, show_generated, app_options, handled, apc>>
    /\ UNCHANGED <<codecVars, sampleVars, dataVars, workerVars>>

\* run lines 210-212 and process_event_message lines 103-131: recv returns
\* a key press.  The event thread sends a key press at any moment, so its
\* place in the channel is after any number of the results sent so far:
\* the results before it are those received already.  The event thread
\* keeps a Sender of the channel, so recv does not return Err (line 214).
AppRecvEvent ==
    /\ apc = "run" /\ rpc = "recv"
    /\ Len(handled) < MaxKeys
    /\ \E code \in KeyCodes :
          /\ state' = process_event_message(state, code)
          /\ show_generated' =
                IF code = "p" THEN ~show_generated ELSE show_generated
          /\ handled' = Append(handled, code)
    /\ recvd' = "Event"
    /\ rpc' = "match"
    /\ UNCHANGED <<loss_data, validation_loss_data, generated_data,
                   app_options, seen, apc>>
    /\ UNCHANGED <<codecVars, sampleVars, dataVars, workerVars>>

InitRun == InitApp /\ CodecIdle /\ SampleIdle /\ DataIdle

NextRun ==
    \/ WorkerRunConnected
    \/ AppDrawMain
    \/ AppStartTraining
    \/ AppStartGeneration
    \/ AppExit
    \/ AppRecvModel
    \/ AppRecvEvent
    \/ AppDropShutdown
    \/ AppDropJoin
    \/ AppRelease

SpecRun == InitRun /\ [][NextRun]_vars

---------------------------------------------------------------------------
(* The worker, scheduled while it has a step to take, with a sampler that  *)
(* does not avoid the delimiter forever.                                   *)

LiveSpec ==
    /\ Spec
    /\ WF_vars(WorkerRun)
    /\ WF_vars(WorkerGenerateEndWord)

---------------------------------------------------------------------------
(* The specifications of the pure parts.                                   *)

CodecInit == InitCodec /\ SampleIdle /\ DataIdle /\ WorkerIdle

NextCodec ==
    \/ CodecLtoi
    \/ CodecItol
    \/ CodecItolRaw

SpecCodec == CodecInit /\ [][NextCodec]_vars

SampleInit == InitSample /\ CodecIdle /\ DataIdle /\ WorkerIdle

NextSample ==
    SampleStep

SpecSample == SampleInit /\ [][NextSample]_vars

DataInit == InitData /\ CodecIdle /\ SampleIdle /\ WorkerIdle

NextData ==
    \/ DataParse
    \/ DataShuffle
    \/ DataTokenizeTraining
    \/ DataTokenizeValidation

SpecData == DataInit /\ [][NextData]_vars

---------------------------------------------------------------------------
(* Claims about the worker (Spec).                                         *)

\* the results an executed command sent
Segment(d) == SubSeq(results, d.from + 1, d.to)

\* the results the running command has sent so far
CurrentSegment == SubSeq(results, cur.from + 1, Len(results))

IsTrainingProgress(msg) == msg.type = "Progress" /\ msg.loss_type = "Training"
IsFinished(msg) == msg.type = "Finished"

\* C1: a Train or Generate that fails inside the model ends with an Error
\* result, and the worker is back in its command loop.
C1_FailureIsReported ==
    \A i \in DOMAIN done :
        done[i].outcome # "ok" =>
            /\ done[i].to > done[i].from
            /\ results[done[i].to] = Error
            /\ done[i].then = "recv"

\* C2: a Train(iterations, start) that meets no failure sends exactly
\* iterations Progress(Training) tagged start, start+1, ... in order, then
\* exactly one Finished; while it runs no Finished has been sent and the
\* tags sent so far are start, start+1, ...
C2_TrainResults ==
    /\ \A i \in DOMAIN done :
          (done[i].cmd.type = "Train" /\ done[i].outcome = "ok") =>
              LET seg == Segment(done[i])
                  tr  == SelectSeq(seg, IsTrainingProgress)
              IN  /\ Len(tr) = done[i].cmd.iterations
                  /\ \A k \in DOMAIN tr :
                        tr[k].iteration = done[i].cmd.start + k - 1
                  /\ Len(SelectSeq(seg, IsFinished)) = 1
                  /\ seg[Len(seg)] = Finished
    /\ wpc = "train" =>
          LET tr == SelectSeq(CurrentSegment, IsTrainingProgress)
          IN  /\ SelectSeq(CurrentSegment, IsFinished) = <<>>
              /\ \A k \in DOMAIN tr : tr[k].iteration = cur.cmd.start + k - 1

\* a Train of 20 iterations from offset 3 has completed
C2_Witness ==
    \E i \in DOMAIN done :
        /\ done[i].cmd = Train(20, 3)
        /\ done[i].outcome = "ok"
        /\ Len(Segment(done[i])) > 21

\* the letters a..z
Letters == ValidChars \ {LETTERS[1]}

\* C3: a Generate(count) on an initialized model that runs to its end
\* sends exactly count Generated and then one Finished, and every text
\* sent is made of the letters a-z only.
C3_GenerateResults ==
    /\ \A i \in DOMAIN done :
          (done[i].cmd.type = "Generate" /\ done[i].outcome = "ok") =>
              LET seg == Segment(done[i])
              IN  /\ Len(seg) = done[i].cmd.count + 1
                  /\ \A k \in 1..done[i].cmd.count : seg[k].type = "Generated"
                  /\ seg[Len(seg)] = Finished
    /\ \A i \in DOMAIN results :
          results[i].type = "Generated" =>
              \A k \in DOMAIN results[i].text : results[i].text[k] \in Letters

\* a Generate(2) has completed, one of its words not empty
C3_Witness ==
    \E i \in DOMAIN done :
        /\ done[i].cmd = Generate(2)
        /\ done[i].outcome = "ok"
        /\ \E k \in DOMAIN Segment(done[i]) : Segment(done[i])[k].text # <<>>

\* C4: a Train with 0 < iterations < 10 does not take a modulus by zero:
\* the worker survives it and the command ends with Finished or Error.
C4_SmallTrainSurvives ==
    \A i \in DOMAIN done :
        (done[i].cmd.type = "Train" /\ done[i].cmd.iterations \in 1..9) =>
            /\ done[i].then = "recv"
            /\ results[done[i].to].type \in {"Finished", "Error"}

\* C9: with a data file of three words, batch_size 3 and block_size 2
\* (and no backend failure), initialization succeeds and every Train of
\* ten iterations or more completes with its Progress(Training) messages
\* and one Finished at the end.
C9_ThreeWordsTrain ==
    ( /\ options.data.readable
      /\ Len(options.data.lines) = 3
      /\ options.batch_size = 3
      /\ options.block_size = 2
      /\ open_device(options.device)
      /\ faults = 0
      /\ wpc \notin {"init", "init_data"} )
    =>  /\ wpc \notin {"panicked", "failed"}
        /\ \A i \in DOMAIN done :
              (done[i].cmd.type = "Train" /\ done[i].cmd.iterations >= 10) =>
                  /\ done[i].outcome = "ok"
                  /\ Len(SelectSeq(Segment(done[i]), IsTrainingProgress))
                        = done[i].cmd.iterations
                  /\ Len(SelectSeq(Segment(done[i]), IsFinished)) = 1

\* the commands the worker has taken from the command channel to execute
Taken ==
    [i \in 1..Len(done) |-> done[i].cmd]
        \o (IF wpc \in {"train", "generate"} THEN <<cur.cmd>> ELSE <<>>)

ShutdownSent == \E i \in DOMAIN sent : sent[i] = Shutdown

\* the commands sent before the first Shutdown
BeforeShutdown ==
    IF ShutdownSent
    THEN SubSeq(sent, 1, Minimum({i \in DOMAIN sent : sent[i] = Shutdown}) - 1)
    ELSE sent

IsPrefix(a, b) == Len(a) <= Len(b) /\ SubSeq(b, 1, Len(a)) = a

\* C12: the worker takes commands in the order sent and none sent after a
\* Shutdown; when it has observed the Shutdown and exited, every command
\* sent before the Shutdown has been executed to its end and its results,
\* ending in Finished or Error, are on the result channel.
C12_NoCancellation ==
    /\ IsPrefix(Taken, BeforeShutdown)
    /\ (wpc = "exited" /\ ShutdownSent) =>
          /\ [i \in 1..Len(done) |-> done[i].cmd] = BeforeShutdown
          /\ \A i \in DOMAIN done :
                /\ done[i].from < done[i].to
                /\ done[i].to <= Len(results)
                /\ results[done[i].to].type \in {"Finished", "Error"}

\* a Train was sent and then Shutdown: the worker has run the Train to its
\* Finished and exited
C12_Witness ==
    /\ wpc = "exited"
    /\ sent = <<Train(20, 3), Shutdown>>
    /\ Len(done) = 1
    /\ done[1].outcome = "ok"
    /\ results[Len(results)] = Finished

IsOperation(c) == c.type \in {"Train", "Generate"}

Running == wpc \in {"train", "generate"}

\* msg is a result the command c can send
ResultOf(msg, c) ==
    IF c.type = "Train"
    THEN /\ msg.type \in {"Progress", "Finished", "Error"}
         /\ msg.type = "Progress" =>
                msg.iteration \in c.start..(c.start + c.iterations - 1)
    ELSE msg.type \in {"Generated", "Finished", "Error"}

\* where the results of the last executed command end
LastTo == IF done = <<>> THEN 0 ELSE done[Len(done)].to

\* C14: the results on the result channel are those of the first command
\* sent, then those of the second, and so on with no interleaving: the
\* commands are taken in the order sent, every result is put on the
\* channel after those already there and is a result of the one command
\* that is running, and the results of each command form one block that
\* starts where the block of the command before it ends.
C14_NoInterleaving ==
    /\ [](IsPrefix(Taken, SelectSeq(sent, IsOperation)))
    /\ [][ results' # results =>
              /\ Running
              /\ Len(results') > Len(results)
              /\ SubSeq(results', 1, Len(results)) = results
              /\ \A k \in (Len(results) + 1)..Len(results') :
                    ResultOf(results'[k], cur.cmd) ]_vars
    /\ [](/\ \A i \in DOMAIN done :
               /\ done[i].from = (IF i = 1 THEN 0 ELSE done[i - 1].to)
               /\ done[i].from <= done[i].to
           /\ IF Running THEN cur.from = LastTo ELSE Len(results) = LastTo)

\* a Train and a Generate were sent and both have run to their end, each
\* with results of its own
C14_Witness ==
    /\ Len(done) = 2
    /\ done[1].cmd = Train(20, 3) /\ done[1].outcome = "ok"
    /\ done[2].cmd = Generate(2) /\ done[2].outcome = "ok"
    /\ Len(results) = done[2].to
    /\ done[1].to > 20

\* C15: once the worker is in its command loop (the model is built), it
\* ends only by leaving the loop on a Shutdown or on the disconnection of
\* the command channel; no Train or Generate ends it.
C15_OnlyShutdownEnds ==
    (params # NoParams /\ WorkerEnded) =>
        /\ wpc = "exited"
        /\ ShutdownSent \/ sender = "dropped"
        /\ \A i \in DOMAIN done : done[i].then = "recv"

\* the Progress messages the claim gives a Train c of ten iterations or
\* more, in its order: for each count its Progress(Training), followed by
\* its Progress(Validation) when count mod (iterations div 10) = 0
ProgressOfCommand ==
    [c \in {x \in Commands : x.type = "Train" /\ x.iterations >= 10} |->
        LET upto[k \in 0..c.iterations] ==
                IF k = 0 THEN <<>>
                ELSE LET n == c.start + k - 1
                     IN  upto[k - 1] \o <<Progress("Training", n)>>
                            \o (IF n % (c.iterations \div 10) = 0
                                THEN <<Progress("Validation", n)>> ELSE <<>>)
        IN  upto[c.iterations]]

ProgressOf(c) == ProgressOfCommand[c]

IsProgress(msg) == msg.type = "Progress"

\* C16: a Train with iterations >= 10 sends a Progress(Validation) tagged
\* count exactly for the counts of [start, start + iterations) with
\* count mod (iterations div 10) = 0, each after the Progress(Training) of
\* its count and before that of count + 1: a Train that runs to its end has
\* sent exactly these, and a Train that is running or has failed a first
\* part of them.
C16_ValidationInterval ==
    /\ \A i \in DOMAIN done :
          (done[i].cmd.type = "Train" /\ done[i].cmd.iterations >= 10) =>
              LET pr == SelectSeq(Segment(done[i]), IsProgress)
              IN  IF done[i].outcome = "ok"
                  THEN pr = ProgressOf(done[i].cmd)
                  ELSE IsPrefix(pr, ProgressOf(done[i].cmd))
    /\ (wpc = "train" /\ cur.cmd.iterations >= 10) =>
          IsPrefix(SelectSeq(CurrentSegment, IsProgress), ProgressOf(cur.cmd))

\* a Train of 20 iterations from 3 has run to its end: ten validation
\* messages, the first tagged 4 and the last 22
C16_Witness ==
    \E i \in DOMAIN done :
        /\ done[i].cmd = Train(20, 3)
        /\ done[i].outcome = "ok"
        /\ Len(Segment(done[i])) = 31
        /\ Segment(done[i])[3] = Progress("Validation", 4)
        /\ Segment(done[i])[30] = Progress("Validation", 22)

\* C18: once the model is built, a step changes a parameter only if it is
\* a step of the training loop, and then replaces a parameter at most
\* once; a training iteration that succeeds (the loop goes on to the next
\* count) replaces all five exactly once; the steps of Generate and the
\* steps of the frontend leave all five as they are.
C18_ParameterFrame ==
    [][ params # NoParams =>
          /\ wpc # "train" => params' = params
          /\ (sent' # sent \/ sender' # sender) => params' = params
          /\ \A i \in 1..5 : params'[i] \in {params[i], params[i] + 1}
          /\ (wpc = "train" /\ wpc' = "train" /\ cur'.count = cur.count + 1) =>
                \A i \in 1..5 : params'[i] = params[i] + 1 ]_vars

\* a Train of 20 iterations has run to its end and a Generate after it is
\* at its second word: each parameter was replaced 20 times
C18_Witness ==
    /\ wpc = "generate"
    /\ cur.word = 1
    /\ Len(done) = 1
    /\ done[1].cmd = Train(20, 3)
    /\ done[1].outcome = "ok"
    /\ params = [i \in 1..5 |-> 20]

---------------------------------------------------------------------------
(* Claims about the termination of Generate (LiveSpec).                    *)

\* the index pushed on the context by the pass that led to cur'
PushedIndex == cur'.context[Len(cur'.context)]

\* C19: a pass of the sampling loop that goes on with the word has sampled
\* an index other than the delimiter, appended its letter and slid the
\* context; the pass that ends the word sends its text; while a word is
\* being sampled a pass that goes on with it is possible (a Generate may
\* run forever) and no command is received; and with the delimiter sampled
\* fairly every Generate comes to its end.
C19_GenerateTermination ==
    /\ [][ (wpc = "generate" /\ wpc' = "generate" /\ cur' # cur
              /\ cur'.word = cur.word) =>
                /\ PushedIndex # 0
                /\ cur'.context = Append(Tail(cur.context), PushedIndex)
                /\ cur'.output = Pushed(cur.output, itol(PushedIndex))
                /\ results' = results ]_vars
    /\ [][ (wpc = "generate" /\ cur'.word = cur.word + 1) =>
                /\ results' = Append(results, Generated(cur.output))
                /\ cur'.output = <<>>
                /\ cur'.context = [i \in 1..block_size |-> 0] ]_vars
    /\ [](wpc = "generate" =>
            /\ cur.word < cur.cmd.count => ENABLED WorkerGenerateLetter
            /\ ~ENABLED WorkerRecvTrain
            /\ ~ENABLED WorkerRecvGenerate
            /\ ~ENABLED WorkerRecvShutdown)
    /\ (wpc = "generate" ~> wpc # "generate")

\* the second word of a Generate has had two letters and goes on, while a
\* Shutdown waits in the command channel
C19_Witness ==
    /\ wpc = "generate"
    /\ cur.word = 1
    /\ cur.context = <<26, 26>>
    /\ commands = <<Shutdown>>

---------------------------------------------------------------------------
(* Claims about the worker with the result channel disconnected            *)
(* (SpecDetached).                                                         *)

\* the steps of a Train c whose sends all fail: up to the first count whose
\* Progress(Validation) is due, or all of them
StepsUntilAbort(c) ==
    LET due == {n \in c.start..(c.start + c.iterations - 1) :
                   c.iterations \div 10 # 0 /\ n % (c.iterations \div 10) = 0}
    IN  IF due = {} THEN c.iterations ELSE Minimum(due) - c.start + 1

\* C17: with the result receiver disconnected before the first result is
\* sent and no backend failure, every Train ends with a send error (of a
\* Progress(Validation) or of Finished) and the worker is back in its
\* command loop; the failed sends of Progress(Training) before that did
\* not stop it: the parameters were replaced in each step up to the abort.
C17_SendFailures ==
    ( /\ receiver = "dropped"
      /\ results = <<>>
      /\ faults = 0
      /\ params # NoParams
      /\ \A i \in DOMAIN done : done[i].cmd.type = "Train" )
    =>  /\ \A i \in DOMAIN done :
              /\ done[i].outcome = "err"
              /\ done[i].then = "recv"
        /\ (Len(done) = 1 /\ ~Running) =>
              params = [k \in 1..5 |-> StepsUntilAbort(done[1].cmd)]

---------------------------------------------------------------------------
(* Claims about the terminal message of a command (Spec).                  *)

IsTerminal(msg) == msg.type \in {"Finished", "Error"}

\* C20: with the result receiver connected, the results of every executed
\* Train or Generate end with exactly one terminal message, Finished or
\* Error, which is the last message of the command; a command that is
\* still running has sent no terminal message.
C20_OneTerminal ==
    /\ \A i \in DOMAIN done :
          LET seg == Segment(done[i])
          IN  /\ seg # <<>>
              /\ IsTerminal(seg[Len(seg)])
              /\ \A k \in 1..(Len(seg) - 1) : ~IsTerminal(seg[k])
    /\ Running =>
          \A k \in DOMAIN CurrentSegment : ~IsTerminal(CurrentSegment[k])

---------------------------------------------------------------------------
(* Claims about the teardown (LiveApp).                                    *)

\* C13: drop sends Shutdown and then joins: once drop has returned the
\* worker has ended, the channel endpoints of App are released only after
\* that, and the join returns when the operations queued for the worker
\* come to an end.
C13_Teardown ==
    /\ [](apc # "run" => sent # <<>> /\ sent[Len(sent)] = Shutdown)
    /\ [](apc \in {"joined", "released"} => WorkerEnded)
    /\ []((sender = "dropped" \/ receiver = "dropped") => apc = "released")
    /\ (apc = "joining" ~> apc = "joined")

\* the App was dropped with two operations queued: both were executed, the
\* worker exited on the Shutdown and the endpoints are released
C13_Witness ==
    /\ apc = "released"
    /\ wpc = "exited"
    /\ Len(done) = 2
    /\ receiver = "dropped"

---------------------------------------------------------------------------
(* Claims about the run loop of the frontend (SpecRun).                    *)

\* C21: the iteration tags recorded in loss_data are strictly increasing,
\* no tag is recorded twice, across the Train commands the frontend sends.
C21_TagsIncrease ==
    \A i \in 1..(Len(loss_data) - 1) : loss_data[i] < loss_data[i + 1]

IsOpKey(code)   == code \in {"t", "Enter", "g"}
IsExitKey(code) == code \in {"q", "Esc"}
OpOfKey(code)   == IF code = "g" THEN "Generate" ELSE "Train"

\* the operations requested by the key presses handled so far, and the
\* operations sent
OpsRequested ==
    LET req == SelectSeq(handled, IsOpKey)
    IN  [i \in DOMAIN req |-> OpOfKey(req[i])]
OpsSent ==
    LET ops == SelectSeq(sent, IsOperation)
    IN  [i \in DOMAIN ops |-> ops[i].type]
LastHandled == handled[Len(handled)]

\* C22: every 't'/Enter press handled is followed by exactly one Train
\* sent and every 'g' press by exactly one Generate, in the order of the
\* presses, and the state is Main again once the command is sent; a result
\* received leaves the state as it was; after 'q'/Esc the state is Exit
\* and nothing but the Shutdown of the teardown is sent.
C22_StateMachine ==
    LET pending == /\ rpc = "match" /\ recvd = "Event"
                   /\ IsOpKey(LastHandled)
    IN  /\ OpsSent = IF pending
                     THEN SubSeq(OpsRequested, 1, Len(OpsRequested) - 1)
                     ELSE OpsRequested
        /\ pending => state = IF OpOfKey(LastHandled) = "Train"
                               THEN "Training" ELSE "Generate"
        /\ (handled # <<>> /\ IsOpKey(LastHandled) /\ ~pending) =>
              state = "Main"
        /\ (rpc = "match" /\ recvd = "Model") => state = "Main"
        /\ rpc = "recv" => state = "Main"
        /\ (handled # <<>> /\ IsExitKey(LastHandled)) => state = "Exit"
        /\ rpc = "returned" => handled # <<>> /\ IsExitKey(LastHandled)

\* C23: a command is sent only to a worker that is alive, and run does not
\* return the error of a failed send.
C23_SendSucceeds ==
    /\ (rpc = "match" /\ state \in {"Training", "Generate"}) => ~WorkerEnded
    /\ rpc # "send_error"

---------------------------------------------------------------------------
(* Claims about the sampler (SpecSample).                                  *)

\* the indices whose cumulative sum is >= the drawn value
Qualifying == {k \in Vocab : random_val <= cumsum(probs)[k + 1]}

\* C5: the sampler returns the first index whose cumulative sum is >= r,
\* and the last index of the vocabulary (26) when no index qualifies.
C5_FirstOrLast ==
    spc = "sampled" =>
        position = IF Qualifying # {} THEN Minimum(Qualifying) ELSE VOCAB_SIZE - 1

\* all the mass of probs is on index k
AllMassOn(k) == probs = [i \in 1..VOCAB_SIZE |-> IF i = k + 1 THEN Scale ELSE 0]

\* C6: when all the mass is on one index k, the sampler returns k for
\* every draw r in [0,1), r = 0 included.
C6_OneHot ==
    \A k \in Vocab : (spc = "sampled" /\ AllMassOn(k)) => position = k

---------------------------------------------------------------------------
(* Claims about the dataset builder (SpecData).                            *)

\* round(0.1 * n), half away from zero
RoundTenth(n) == (n + 5) \div 10

\* training_end has been computed and the two slices taken
SplitTaken == dpc \in {"training_done", "done", "panic"}

TrainingCount == Len(SubSeq(data, 1, training_end))
ValidationCount == Len(SubSeq(data, training_end + 1, Len(data)))

\* C7 as stated: round(0.1*N) words go to validation and the rest to training.
C7_Original ==
    SplitTaken =>
        /\ ValidationCount = RoundTenth(Len(data))
        /\ TrainingCount = Len(data) - RoundTenth(Len(data))

\* C7 amended: the two splits hold all N words, and validation holds
\* round(0.1*N) of them, except one fewer when N mod 10 = 5 (where 0.9*N
\* and 0.1*N both end in .5 and round(0.9*N) takes the word).
C7_Amended ==
    SplitTaken =>
        /\ TrainingCount + ValidationCount = Len(data)
        /\ ValidationCount =
              IF Len(data) % 10 = 5
              THEN RoundTenth(Len(data)) - 1
              ELSE RoundTenth(Len(data))

\* a word list whose size ends in 5 has been split
C7_Witness ==
    /\ SplitTaken
    /\ Len(data) = 5
    /\ TrainingCount = 5
    /\ ValidationCount = 0

\* C8: when a split holds no word, dataset construction ends with an error
\* value, not with a panic of the thread that builds it.
C8_EmptySplitIsError ==
    (SplitTaken /\ block_size > 0 /\ (TrainingCount = 0 \/ ValidationCount = 0))
        => dpc = "err"

\* the rows of one split against its words: word i of length L owns the
\* L + 1 rows after those of the words before it
RowsOfWords(rows, words) ==
    LET off[k \in 0..Len(words)] ==
            IF k = 0 THEN 0 ELSE off[k - 1] + Len(words[k]) + 1
    IN  /\ Len(rows.input) = off[Len(words)]
        /\ Len(rows.target) = off[Len(words)]
        /\ \A i \in DOMAIN words :
              LET o == off[i - 1]
                  L == Len(words[i])
              IN  /\ rows.input[o + 1] = [j \in 1..block_size |-> 0]
                  /\ rows.target[o + L + 1] = 0
                  /\ \A k \in 1..(L + 1) : Len(rows.input[o + k]) = block_size
                  /\ \A k \in 2..(L + 1) :
                        rows.input[o + k] =
                            Append(Tail(rows.input[o + k - 1]), rows.target[o + k - 1])

\* C11: for block_size > 0 a word of length L gives exactly L + 1 (context,
\* target) pairs, the last target the delimiter; the first context of a
\* word is block_size delimiters, every context has length block_size, and
\* each later context is the previous one with index 0 dropped and the
\* previous target appended.
C11_ContextSliding ==
    block_size > 0 =>
        /\ training.status # "none" =>
              RowsOfWords(training, SubSeq(data, 1, training_end))
        /\ validation.status # "none" =>
              RowsOfWords(validation, SubSeq(data, training_end + 1, Len(data)))

\* a word of three letters has been tokenized with block_size 2 after
\* another word: the context a, b is a row, and so is the reset context
C11_Witness ==
    /\ dpc = "done"
    /\ block_size = 2
    /\ training_end >= 2
    /\ Len(data[2]) = 3
    /\ \E i \in DOMAIN training.input :
          /\ i > 2
          /\ training.input[i] = <<1, 2>>
          /\ training.target[i] = 26
    /\ \E i \in DOMAIN training.input :
          i > 1 /\ training.input[i] = <<0, 0>>

---------------------------------------------------------------------------
(* Claims about the codec (SpecCodec).                                     *)

\* C10: itol(ltoi(c)) is c for c in {'.', a..z} and 'z' otherwise; ltoi is
\* injective on {'.', a..z} with values 0..26; itol of an index above 26
\* is 'z'.
C10_Codec ==
    /\ cpc = "decoded" =>
          decoded = IF letter \in ValidChars THEN letter ELSE "z"
    /\ cpc \in {"encoded", "decoded"} =>
          /\ index \in 0..26
          /\ letter \in ValidChars =>
                \A c \in ValidChars : ltoi(c) = index => c = letter
    /\ (cpc = "index_decoded" /\ index > 26) => decoded = "z"

\* a character outside the vocabulary and a vocabulary letter have made
\* the round trip
C10_Witness ==
    /\ cpc = "decoded"
    /\ letter \in {"A", "q"}

=============================================================================
